---- MODULE Spec2Model ----
(***************************************************************************)
(* Pipelined execution layer (crates/pipe-exec-layer-ext-v2/src/lib.rs).   *)
(*                                                                         *)
(* The model has one process for the dispatch loop (PipeExecService::run), *)
(* one process per spawned Core::process task, and the environment: the    *)
(* Coordinator using PipeExecLayerApi, the sender of ExecutionArgs and the *)
(* host that acknowledges MakeCanonical events.                            *)
(*                                                                         *)
(* A panic (assert_eq!, unwrap on None) ends the panicking tokio task; in  *)
(* a build with panic=abort it ends the process.  Both outcomes are        *)
(* modelled: Panic chooses between them.                                   *)
(*                                                                         *)
(* filter_invalid_txs is modelled on its own (FilterSpec): a call with     *)
(* every input of a bounded set, its buckets processed in any order and   *)
(* interleaved, and a second call on the lists the first one returned.     *)
(* CoopSpec is the pipeline in an environment that meets its expectations. *)
(***************************************************************************)
EXTENDS Integers, Sequences, FiniteSets, TLC

VARIABLES
    svc_pc,                 \* position of PipeExecService::run
    latest_block_number,    \* run's local latest_block_number
    execution_args,         \* the ExecutionArgs one-shot: pending, sent (with its map) or dropped
    ordered_block_q,        \* ordered blocks in the ingress queue
    api_dropped,            \* PipeExecLayerApi dropped (producer side gone)
    tasks,                  \* spawned Core::process tasks, in spawn order
    execute_block_barrier,
    merklize_barrier,
    seal_barrier,
    make_canonical_barrier,
    executed_block_hash_ch,
    verified_block_hash_ch,
    events,                 \* MakeCanonical events sent on event_tx, in order
    storage,                \* calls made on GravityStorage
    pulled,                 \* hashes returned by pull_executed_block_hash
    aborted,                \* the process was ended by a panic (panic=abort)
    db,                     \* filter_invalid_txs: the state view (address -> AccountInfo)
    txs,                    \* filter_invalid_txs: the transactions passed in
    senders,                \* filter_invalid_txs: their senders
    base_fee_per_gas,       \* filter_invalid_txs: the base fee passed in
    sender_idx,             \* buckets the parallel iterator has not processed yet
    invalid_idxs,           \* invalid indices collected so far
    filtered,               \* the pair of lists filter_invalid_txs returned
    filter_pc,              \* position of the call of filter_invalid_txs
    filter_calls,           \* the input lists of the calls of filter_invalid_txs started
    accounts,               \* the `mut account` of each bucket whose closure is running
                            \* (dropped when the closure returns)
    checked                 \* the indices is_tx_valid was called for, in the order of the calls

pipe_vars == <<svc_pc, latest_block_number, execution_args, ordered_block_q, api_dropped,
               tasks, execute_block_barrier, merklize_barrier, seal_barrier,
               make_canonical_barrier, executed_block_hash_ch, verified_block_hash_ch,
               events, storage, pulled, aborted>>

filter_vars == <<db, txs, senders, base_fee_per_gas, sender_idx, invalid_idxs, filtered,
                 filter_pc, filter_calls, accounts, checked>>

vars == <<pipe_vars, filter_vars>>

-----------------------------------------------------------------------------
(* Bounds and start-up parameters *)

MaxBlocks == 2      \* ordered blocks the Coordinator pushes, before one
                    \* more that can only have a wrong number
MaxTxs == 3         \* transactions in the list passed to filter_invalid_txs

LatestBlockNumber == 10         \* latest_block_header.number at start-up
GenesisId == 0                  \* block id of the latest block
BadId == 99                     \* an id no block has
LatestBlockHash == <<0>>        \* latest_block_hash at start-up
LatestBlockHeader == [number |-> LatestBlockNumber]

NoHash == <<>>
BadHash == <<0, 0>>             \* a hash no sealed block has
Closed == [ok |-> FALSE]        \* the None a closed channel returns
Some(v) == [ok |-> TRUE, val |-> v]
NoArgs == [state |-> "pending", map |-> <<>>]

-----------------------------------------------------------------------------
(* Keyed rendezvous channel (mod channel) *)

NewChannel == [vals |-> <<>>, closed |-> FALSE]

NewWithStates(k, v) == [vals |-> (k :> v), closed |-> FALSE]

Has(ch, k) == k \in DOMAIN ch.vals

\* notify(k, v) returns Some(()) iff the channel is open and k is unpublished
NotifyOk(ch, k) == ~ch.closed /\ ~Has(ch, k)

Notify(ch, k, v) == IF NotifyOk(ch, k) THEN [ch EXCEPT !.vals = (k :> v) @@ @] ELSE ch

\* why a notify that is not NotifyOk returned None
NotifyFailure(ch) == IF ch.closed THEN "closed" ELSE "duplicate"

\* The results wait(k) can resume with; empty while the caller stays suspended.
\* A waiter that was resumed by notify before the channel closed holds the
\* value; a wait issued after close gets the closed signal.
WaitResults(ch, k) ==
    (IF Has(ch, k) THEN {Some(ch.vals[k])} ELSE {}) \cup (IF ch.closed THEN {Closed} ELSE {})

Close(ch) == [ch EXCEPT !.closed = TRUE]

-----------------------------------------------------------------------------
(* Values *)

\* The ordered blocks the Coordinator may push after a block numbered
\* last_number with id last_id, as the k-th push: with the next number, a
\* fresh id or the id of the block pushed before it again, the last id as
\* parent or a wrong one; or with a gap in the numbers (id and parent of such
\* a block are never read).
OrderedBlocks(k, last_number, last_id) ==
    [number : {last_number + 1},
     id : {k} \cup ({last_id} \ {GenesisId}),
     parent_id : {last_id, BadId}]
        \cup {[number |-> last_number + 2, id |-> k, parent_id |-> last_id]}

\* block.seal_slow(): the hash covers the whole header, parent_hash included
SealSlow(number, id, parent_hash) == <<number, id>> \o parent_hash

NewTask(ob) ==
    [pc |-> "start", number |-> ob.number, id |-> ob.id, parent_id |-> ob.parent_id,
     parent_header |-> 0, parent_hash |-> NoHash, block_hash |-> NoHash, panic |-> ""]

TaskIds == DOMAIN tasks

EmptyStorage == [block_ids |-> <<>>, bundles |-> {}, roots |-> <<>>, canonical |-> <<>>]

\* new_pipe_exec_layer_api: Channel::new_with_states([(latest_block_number, v)])
SeededAtNextNumber(v) == NewWithStates(LatestBlockNumber + 1, v)

SeededBarrier(v) == NewWithStates(LatestBlockNumber, v)

-----------------------------------------------------------------------------
PipeInit ==
    /\ svc_pc = "init"
    /\ latest_block_number = LatestBlockNumber
    /\ execution_args = NoArgs
    /\ ordered_block_q = <<>>
    /\ api_dropped = FALSE
    /\ tasks = <<>>
    /\ execute_block_barrier = SeededBarrier(LatestBlockHeader.number)
    /\ merklize_barrier = SeededBarrier("unit")
    /\ seal_barrier = SeededBarrier(LatestBlockHash)
    /\ make_canonical_barrier = SeededBarrier("instant")
    /\ executed_block_hash_ch = NewChannel
    /\ verified_block_hash_ch = NewChannel
    /\ events = <<>>
    /\ storage = EmptyStorage
    /\ pulled = <<>>
    /\ aborted = FALSE

\* no call of filter_invalid_txs is modelled in progress
FilterIdle ==
    /\ db = <<>>
    /\ txs = <<>>
    /\ senders = <<>>
    /\ base_fee_per_gas = 0
    /\ sender_idx = <<>>
    /\ invalid_idxs = {}
    /\ filtered = <<>>
    /\ filter_pc = "idle"
    /\ filter_calls = <<>>
    /\ accounts = <<>>
    /\ checked = <<>>

Init == PipeInit /\ FilterIdle

-----------------------------------------------------------------------------
(* Panics *)

\* A panic inside the task of tasks[i]: the task ends, or the process aborts.
\* why: "closed" for an unwrap of the None of a closed channel, "duplicate"
\* for an unwrap of the None of a second notify of a key, "execute" for a
\* failure inside execute_ordered_block, "hash_mismatch" for the hash assert.
PanicTask(i, why) ==
    \/ /\ tasks' = [tasks EXCEPT ![i].pc = "panicked", ![i].panic = why]
       /\ UNCHANGED aborted
    \/ /\ aborted' = TRUE
       /\ UNCHANGED tasks

\* A panic inside PipeExecService::run.
PanicService ==
    \/ /\ svc_pc' = "panicked"
       /\ UNCHANGED aborted
    \/ /\ aborted' = TRUE
       /\ UNCHANGED svc_pc

Goto(i, pc) == tasks' = [tasks EXCEPT ![i].pc = pc]

\* ordered_block_rx is alive while run has neither returned nor panicked
ReceiverAlive == svc_pc \in {"init", "recv"}

-----------------------------------------------------------------------------
(* Environment: Coordinator, bootstrap, host *)

\* the ExecutionArgs one-shot resolves with block_number_to_block_id
SendExecutionArgs ==
    /\ ~aborted
    /\ execution_args.state = "pending"
    /\ execution_args' = [state |-> "sent", map |-> (LatestBlockNumber :> GenesisId)]
    /\ UNCHANGED filter_vars
    /\ UNCHANGED <<svc_pc, latest_block_number, ordered_block_q, api_dropped, tasks,
                   execute_block_barrier, merklize_barrier, seal_barrier,
                   make_canonical_barrier, executed_block_hash_ch,
                   verified_block_hash_ch, events, storage, pulled, aborted>>

\* the sender of the one-shot is dropped without sending
DropExecutionArgs ==
    /\ ~aborted
    /\ execution_args.state = "pending"
    /\ execution_args' = [state |-> "dropped", map |-> <<>>]
    /\ UNCHANGED filter_vars
    /\ UNCHANGED <<svc_pc, latest_block_number, ordered_block_q, api_dropped, tasks,
                   execute_block_barrier, merklize_barrier, seal_barrier,
                   make_canonical_barrier, executed_block_hash_ch,
                   verified_block_hash_ch, events, storage, pulled, aborted>>

\* what the Coordinator pushed last (all received blocks passed the assert)
Pushed == Len(ordered_block_q) + Len(tasks)

LastPushed ==
    IF ordered_block_q # <<>> THEN ordered_block_q[Len(ordered_block_q)]
    ELSE IF tasks # <<>> THEN tasks[Len(tasks)]
    ELSE [number |-> LatestBlockNumber, id |-> GenesisId]

\* PipeExecLayerApi::push_ordered_block
PushOrderedBlock(block) ==
    /\ ~aborted
    /\ ~api_dropped
    /\ ReceiverAlive
    /\ \/ Pushed < MaxBlocks
       \/ Pushed = MaxBlocks /\ block.number # LastPushed.number + 1
    /\ ordered_block_q' = Append(ordered_block_q, block)
    /\ UNCHANGED filter_vars
    /\ UNCHANGED <<svc_pc, latest_block_number, execution_args, api_dropped, tasks,
                   execute_block_barrier, merklize_barrier, seal_barrier,
                   make_canonical_barrier, executed_block_hash_ch,
                   verified_block_hash_ch, events, storage, pulled, aborted>>

\* PipeExecLayerApi::pull_executed_block_hash resuming with a hash
PullExecutedBlockHash(block_id) ==
    /\ ~aborted
    /\ ~api_dropped
    /\ block_id \notin DOMAIN pulled
    /\ \E r \in WaitResults(executed_block_hash_ch, block_id) :
          /\ r.ok
          /\ pulled' = (block_id :> r.val) @@ pulled
    /\ UNCHANGED filter_vars
    /\ UNCHANGED <<svc_pc, latest_block_number, execution_args, ordered_block_q,
                   api_dropped, tasks, execute_block_barrier, merklize_barrier,
                   seal_barrier, make_canonical_barrier, executed_block_hash_ch,
                   verified_block_hash_ch, events, storage, aborted>>

\* PipeExecLayerApi::commit_executed_block_hash
CommitExecutedBlockHash(block_meta) ==
    /\ ~aborted
    /\ ~api_dropped
    /\ NotifyOk(verified_block_hash_ch, block_meta.block_id)
    /\ verified_block_hash_ch' =
          Notify(verified_block_hash_ch, block_meta.block_id, block_meta.block_hash)
    /\ UNCHANGED filter_vars
    /\ UNCHANGED <<svc_pc, latest_block_number, execution_args, ordered_block_q,
                   api_dropped, tasks, execute_block_barrier, merklize_barrier,
                   seal_barrier, make_canonical_barrier, executed_block_hash_ch,
                   events, storage, pulled, aborted>>

\* the ids the Coordinator pulls and commits for: those of the blocks dispatched
DispatchedIds == {tasks[i].id : i \in TaskIds}

\* the hashes the Coordinator can commit for an id: the one it pulled, or another
CommitChoices(block_id) ==
    {BadHash} \cup (IF block_id \in DOMAIN pulled THEN {pulled[block_id]} ELSE {})

\* a drop that leaves the verified_block_hash channel open
DropApiNoClose ==
    /\ ~aborted
    /\ ~api_dropped
    /\ api_dropped' = TRUE
    /\ UNCHANGED filter_vars
    /\ UNCHANGED <<svc_pc, latest_block_number, execution_args, ordered_block_q, tasks,
                   execute_block_barrier, merklize_barrier, seal_barrier,
                   make_canonical_barrier, executed_block_hash_ch,
                   verified_block_hash_ch, events, storage, pulled, aborted>>

\* Drop for PipeExecLayerApi, then the drop of its field ordered_block_tx
DropApi ==
    /\ ~aborted
    /\ ~api_dropped
    /\ api_dropped' = TRUE
    /\ verified_block_hash_ch' = Close(verified_block_hash_ch)
    /\ UNCHANGED filter_vars
    /\ UNCHANGED <<svc_pc, latest_block_number, execution_args, ordered_block_q, tasks,
                   execute_block_barrier, merklize_barrier, seal_barrier,
                   make_canonical_barrier, executed_block_hash_ch, events, storage,
                   pulled, aborted>>

\* the host signals the reply sink of the e-th MakeCanonical event
HostAck(e) ==
    /\ ~aborted
    /\ ~events[e].acked
    /\ events' = [events EXCEPT ![e].acked = TRUE]
    /\ UNCHANGED filter_vars
    /\ UNCHANGED <<svc_pc, latest_block_number, execution_args, ordered_block_q,
                   api_dropped, tasks, execute_block_barrier, merklize_barrier,
                   seal_barrier, make_canonical_barrier, executed_block_hash_ch,
                   verified_block_hash_ch, storage, pulled, aborted>>

-----------------------------------------------------------------------------
(* PipeExecService::run *)

RECURSIVE InsertAll(_, _, _)
InsertAll(ids, m, keys) ==
    IF keys = {} THEN ids
    ELSE LET k == CHOOSE x \in keys : TRUE
         IN InsertAll((k :> m[k]) @@ ids, m, keys \ {k})

\* an init_storage that registers nothing
InitStorageNothing(args) == storage

\* Core::init_storage
InitStorage(args) ==
    [storage EXCEPT !.block_ids = InsertAll(@, args, DOMAIN args)]

\* self.core.init_storage(self.execution_args_rx.await.unwrap())
RunInit ==
    /\ ~aborted
    /\ svc_pc = "init"
    /\ execution_args.state # "pending"
    /\ IF execution_args.state = "dropped"
       THEN PanicService /\ UNCHANGED storage
       ELSE /\ storage' = InitStorage(execution_args.map)
            /\ svc_pc' = "recv"
            /\ UNCHANGED aborted
    /\ UNCHANGED filter_vars
    /\ UNCHANGED <<latest_block_number, execution_args, ordered_block_q, api_dropped,
                   tasks, execute_block_barrier, merklize_barrier, seal_barrier,
                   make_canonical_barrier, executed_block_hash_ch,
                   verified_block_hash_ch, events, pulled>>

NumberAssertAscending(number, latest) == number > latest

\* assert_eq!(ordered_block.number, latest_block_number + 1)
NumberAssert(number, latest) == number = latest + 1

\* recv() returns Some(ordered_block): assert, update, spawn
RunRecvBlock ==
    /\ ~aborted
    /\ svc_pc = "recv"
    /\ ordered_block_q # <<>>
    /\ ordered_block_q' = Tail(ordered_block_q)
    /\ LET ordered_block == Head(ordered_block_q) IN
       IF NumberAssert(ordered_block.number, latest_block_number)
       THEN /\ latest_block_number' = ordered_block.number
            /\ tasks' = Append(tasks, NewTask(ordered_block))
            /\ UNCHANGED <<svc_pc, aborted>>
       ELSE /\ PanicService
            /\ UNCHANGED <<latest_block_number, tasks>>
    /\ UNCHANGED filter_vars
    /\ UNCHANGED <<execution_args, api_dropped, execute_block_barrier,
                   merklize_barrier, seal_barrier, make_canonical_barrier,
                   executed_block_hash_ch, verified_block_hash_ch, events, storage,
                   pulled>>

\* recv() returns None: the queue is empty and the sender is dropped
RunRecvNone ==
    /\ ~aborted
    /\ svc_pc = "recv"
    /\ ordered_block_q = <<>>
    /\ api_dropped
    /\ svc_pc' = "close_executed"
    /\ UNCHANGED filter_vars
    /\ UNCHANGED <<latest_block_number, execution_args, ordered_block_q, api_dropped,
                   tasks, execute_block_barrier, merklize_barrier, seal_barrier,
                   make_canonical_barrier, executed_block_hash_ch,
                   verified_block_hash_ch, events, storage, pulled, aborted>>

RunCloseExecuted ==
    /\ ~aborted
    /\ svc_pc = "close_executed"
    /\ executed_block_hash_ch' = Close(executed_block_hash_ch)
    /\ svc_pc' = "close_execute"
    /\ UNCHANGED filter_vars
    /\ UNCHANGED <<latest_block_number, execution_args, ordered_block_q, api_dropped,
                   tasks, execute_block_barrier, merklize_barrier, seal_barrier,
                   make_canonical_barrier, verified_block_hash_ch, events, storage,
                   pulled, aborted>>

RunCloseExecute ==
    /\ ~aborted
    /\ svc_pc = "close_execute"
    /\ execute_block_barrier' = Close(execute_block_barrier)
    /\ svc_pc' = "close_merklize"
    /\ UNCHANGED filter_vars
    /\ UNCHANGED <<latest_block_number, execution_args, ordered_block_q, api_dropped,
                   tasks, merklize_barrier, seal_barrier, make_canonical_barrier,
                   executed_block_hash_ch, verified_block_hash_ch, events, storage,
                   pulled, aborted>>

\* a shutdown that closes seal_barrier together with merklize_barrier
RunCloseMerklizeAndSeal ==
    /\ ~aborted
    /\ svc_pc = "close_merklize"
    /\ merklize_barrier' = Close(merklize_barrier)
    /\ seal_barrier' = Close(seal_barrier)
    /\ svc_pc' = "close_canonical"
    /\ UNCHANGED filter_vars
    /\ UNCHANGED <<latest_block_number, execution_args, ordered_block_q, api_dropped,
                   tasks, execute_block_barrier, make_canonical_barrier,
                   executed_block_hash_ch, verified_block_hash_ch, events, storage,
                   pulled, aborted>>

RunCloseMerklize ==
    /\ ~aborted
    /\ svc_pc = "close_merklize"
    /\ merklize_barrier' = Close(merklize_barrier)
    /\ svc_pc' = "close_canonical"
    /\ UNCHANGED filter_vars
    /\ UNCHANGED <<latest_block_number, execution_args, ordered_block_q, api_dropped,
                   tasks, execute_block_barrier, seal_barrier, make_canonical_barrier,
                   executed_block_hash_ch, verified_block_hash_ch, events, storage,
                   pulled, aborted>>

RunCloseCanonical ==
    /\ ~aborted
    /\ svc_pc = "close_canonical"
    /\ make_canonical_barrier' = Close(make_canonical_barrier)
    /\ svc_pc' = "returned"
    /\ UNCHANGED filter_vars
    /\ UNCHANGED <<latest_block_number, execution_args, ordered_block_q, api_dropped,
                   tasks, execute_block_barrier, merklize_barrier, seal_barrier,
                   executed_block_hash_ch, verified_block_hash_ch, events, storage,
                   pulled, aborted>>

-----------------------------------------------------------------------------
(* Core::process, one action per step of the task of tasks[i] *)

\* self.storage.insert_block_id(block_number, block_id)
InsertBlockId(i) ==
    /\ ~aborted
    /\ tasks[i].pc = "start"
    /\ storage' = [storage EXCEPT !.block_ids = (tasks[i].number :> tasks[i].id) @@ @]
    /\ Goto(i, "execute_wait")
    /\ UNCHANGED filter_vars
    /\ UNCHANGED <<svc_pc, latest_block_number, execution_args, ordered_block_q,
                   api_dropped, execute_block_barrier, merklize_barrier, seal_barrier,
                   make_canonical_barrier, executed_block_hash_ch,
                   verified_block_hash_ch, events, pulled, aborted>>

WaitKeyTwoBack(block_number) == block_number - 2

\* the key every barrier wait of block block_number uses
WaitKey(block_number) == block_number - 1

\* a task that starts executing without waiting for its parent's header
ExecuteWaitNoBarrier(i) ==
    /\ ~aborted
    /\ tasks[i].pc = "execute_wait"
    /\ tasks' = [tasks EXCEPT ![i].pc = "execute",
                              ![i].parent_header = LatestBlockHeader.number]
    /\ UNCHANGED filter_vars
    /\ UNCHANGED <<svc_pc, latest_block_number, execution_args, ordered_block_q,
                   api_dropped, execute_block_barrier, merklize_barrier, seal_barrier,
                   make_canonical_barrier, executed_block_hash_ch,
                   verified_block_hash_ch, events, storage, pulled, aborted>>

\* self.execute_block_barrier.wait(block_number - 1).await.unwrap()
ExecuteWait(i) ==
    /\ ~aborted
    /\ tasks[i].pc = "execute_wait"
    /\ \E r \in WaitResults(execute_block_barrier, WaitKey(tasks[i].number)) :
          IF r.ok
          THEN /\ tasks' = [tasks EXCEPT ![i].pc = "execute", ![i].parent_header = r.val]
               /\ UNCHANGED aborted
          ELSE PanicTask(i, "closed")
    /\ UNCHANGED filter_vars
    /\ UNCHANGED <<svc_pc, latest_block_number, execution_args, ordered_block_q,
                   api_dropped, execute_block_barrier, merklize_barrier, seal_barrier,
                   make_canonical_barrier, executed_block_hash_ch,
                   verified_block_hash_ch, events, storage, pulled>>

\* GravityStorage::get_state_view: the id registered for the block number
GetStateView(number) ==
    IF number \in DOMAIN storage.block_ids
    THEN Some(storage.block_ids[number])
    ELSE Closed

\* storage.get_state_view(block.number - 1).unwrap() and
\* assert_eq!(parent_id, ordered_block.parent_id) succeed
StateViewOk(t) ==
    LET view == GetStateView(t.number - 1) IN
    view.ok /\ view.val = t.parent_id

\* a task that publishes its header on the execute barrier without having
\* called insert_bundle_state
ExecuteWithoutBundleState(i, executor_ok) ==
    /\ ~aborted
    /\ tasks[i].pc = "execute"
    /\ IF StateViewOk(tasks[i]) /\ executor_ok
       THEN /\ execute_block_barrier' =
                  Notify(execute_block_barrier, tasks[i].number, tasks[i].number)
            /\ IF NotifyOk(execute_block_barrier, tasks[i].number)
               THEN Goto(i, "roots") /\ UNCHANGED aborted
               ELSE PanicTask(i, NotifyFailure(execute_block_barrier))
            /\ UNCHANGED storage
       ELSE /\ PanicTask(i, "execute")
            /\ UNCHANGED <<storage, execute_block_barrier>>
    /\ UNCHANGED filter_vars
    /\ UNCHANGED <<svc_pc, latest_block_number, execution_args, ordered_block_q,
                   api_dropped, merklize_barrier, seal_barrier, make_canonical_barrier,
                   executed_block_hash_ch, verified_block_hash_ch, events, pulled>>

\* execute_ordered_block, insert_bundle_state, execute_block_barrier.notify;
\* executor_ok: executor.execute returns Ok
ExecuteWith(i, executor_ok) ==
    /\ ~aborted
    /\ tasks[i].pc = "execute"
    /\ IF StateViewOk(tasks[i]) /\ executor_ok
       THEN /\ storage' = [storage EXCEPT !.bundles = @ \cup {tasks[i].number}]
            /\ execute_block_barrier' =
                  Notify(execute_block_barrier, tasks[i].number, tasks[i].number)
            /\ IF NotifyOk(execute_block_barrier, tasks[i].number)
               THEN Goto(i, "roots") /\ UNCHANGED aborted
               ELSE PanicTask(i, NotifyFailure(execute_block_barrier))
       ELSE /\ PanicTask(i, "execute")
            /\ UNCHANGED <<storage, execute_block_barrier>>
    /\ UNCHANGED filter_vars
    /\ UNCHANGED <<svc_pc, latest_block_number, execution_args, ordered_block_q,
                   api_dropped, merklize_barrier, seal_barrier, make_canonical_barrier,
                   executed_block_hash_ch, verified_block_hash_ch, events, pulled>>

Execute(i) == \E executor_ok \in BOOLEAN : ExecuteWith(i, executor_ok)

\* a task that goes from its roots straight to sealing
CalculateRootsThenSeal(i) ==
    /\ ~aborted
    /\ tasks[i].pc = "roots"
    /\ Goto(i, "seal_wait")
    /\ UNCHANGED filter_vars
    /\ UNCHANGED <<svc_pc, latest_block_number, execution_args, ordered_block_q,
                   api_dropped, execute_block_barrier, merklize_barrier, seal_barrier,
                   make_canonical_barrier, executed_block_hash_ch,
                   verified_block_hash_ch, events, storage, pulled, aborted>>

\* self.calculate_roots(&mut block, outcome)
CalculateRoots(i) ==
    /\ ~aborted
    /\ tasks[i].pc = "roots"
    /\ Goto(i, "merklize_wait")
    /\ UNCHANGED filter_vars
    /\ UNCHANGED <<svc_pc, latest_block_number, execution_args, ordered_block_q,
                   api_dropped, execute_block_barrier, merklize_barrier, seal_barrier,
                   make_canonical_barrier, executed_block_hash_ch,
                   verified_block_hash_ch, events, storage, pulled, aborted>>

\* a task that waits for its parent on the execute barrier before merklizing
MerklizeWaitOnExecuteBarrier(i) ==
    /\ ~aborted
    /\ tasks[i].pc = "merklize_wait"
    /\ \E r \in WaitResults(execute_block_barrier, WaitKey(tasks[i].number)) :
          IF r.ok THEN Goto(i, "merklize") /\ UNCHANGED aborted ELSE PanicTask(i, "closed")
    /\ UNCHANGED filter_vars
    /\ UNCHANGED <<svc_pc, latest_block_number, execution_args, ordered_block_q,
                   api_dropped, execute_block_barrier, merklize_barrier, seal_barrier,
                   make_canonical_barrier, executed_block_hash_ch,
                   verified_block_hash_ch, events, storage, pulled>>

\* a task that starts merklizing without waiting for its parent
MerklizeWaitNoBarrier(i) ==
    /\ ~aborted
    /\ tasks[i].pc = "merklize_wait"
    /\ Goto(i, "merklize")
    /\ UNCHANGED filter_vars
    /\ UNCHANGED <<svc_pc, latest_block_number, execution_args, ordered_block_q,
                   api_dropped, execute_block_barrier, merklize_barrier, seal_barrier,
                   make_canonical_barrier, executed_block_hash_ch,
                   verified_block_hash_ch, events, storage, pulled, aborted>>

\* self.merklize_barrier.wait(block_number - 1).await.unwrap()
MerklizeWait(i) ==
    /\ ~aborted
    /\ tasks[i].pc = "merklize_wait"
    /\ \E r \in WaitResults(merklize_barrier, WaitKey(tasks[i].number)) :
          IF r.ok THEN Goto(i, "merklize") /\ UNCHANGED aborted ELSE PanicTask(i, "closed")
    /\ UNCHANGED filter_vars
    /\ UNCHANGED <<svc_pc, latest_block_number, execution_args, ordered_block_q,
                   api_dropped, execute_block_barrier, merklize_barrier, seal_barrier,
                   make_canonical_barrier, executed_block_hash_ch,
                   verified_block_hash_ch, events, storage, pulled>>

\* storage.state_root_with_updates(block_number), merklize_barrier.notify
Merklize(i) ==
    /\ ~aborted
    /\ tasks[i].pc = "merklize"
    /\ storage' = [storage EXCEPT !.roots = Append(@, tasks[i].number)]
    /\ merklize_barrier' = Notify(merklize_barrier, tasks[i].number, "unit")
    /\ IF NotifyOk(merklize_barrier, tasks[i].number)
       THEN Goto(i, "seal_wait") /\ UNCHANGED aborted
       ELSE PanicTask(i, NotifyFailure(merklize_barrier))
    /\ UNCHANGED filter_vars
    /\ UNCHANGED <<svc_pc, latest_block_number, execution_args, ordered_block_q,
                   api_dropped, execute_block_barrier, seal_barrier,
                   make_canonical_barrier, executed_block_hash_ch,
                   verified_block_hash_ch, events, pulled>>

\* a task that waits for its parent's hash and does not put it in its header
SealWaitDropsParentHash(i) ==
    /\ ~aborted
    /\ tasks[i].pc = "seal_wait"
    /\ \E r \in WaitResults(seal_barrier, WaitKey(tasks[i].number)) :
          IF r.ok THEN Goto(i, "seal") /\ UNCHANGED aborted ELSE PanicTask(i, "closed")
    /\ UNCHANGED filter_vars
    /\ UNCHANGED <<svc_pc, latest_block_number, execution_args, ordered_block_q,
                   api_dropped, execute_block_barrier, merklize_barrier, seal_barrier,
                   make_canonical_barrier, executed_block_hash_ch,
                   verified_block_hash_ch, events, storage, pulled>>

\* self.seal_barrier.wait(block_number - 1).await.unwrap()
SealWait(i) ==
    /\ ~aborted
    /\ tasks[i].pc = "seal_wait"
    /\ \E r \in WaitResults(seal_barrier, WaitKey(tasks[i].number)) :
          IF r.ok
          THEN /\ tasks' = [tasks EXCEPT ![i].pc = "seal", ![i].parent_hash = r.val]
               /\ UNCHANGED aborted
          ELSE PanicTask(i, "closed")
    /\ UNCHANGED filter_vars
    /\ UNCHANGED <<svc_pc, latest_block_number, execution_args, ordered_block_q,
                   api_dropped, execute_block_barrier, merklize_barrier, seal_barrier,
                   make_canonical_barrier, executed_block_hash_ch,
                   verified_block_hash_ch, events, storage, pulled>>

\* block.seal_slow(), block.hash(), seal_barrier.notify(block_number, block_hash)
Seal(i) ==
    /\ ~aborted
    /\ tasks[i].pc = "seal"
    /\ LET block_hash == SealSlow(tasks[i].number, tasks[i].id, tasks[i].parent_hash) IN
       /\ seal_barrier' = Notify(seal_barrier, tasks[i].number, block_hash)
       /\ IF NotifyOk(seal_barrier, tasks[i].number)
          THEN /\ tasks' = [tasks EXCEPT ![i].pc = "verify_notify",
                                         ![i].block_hash = block_hash]
               /\ UNCHANGED aborted
          ELSE PanicTask(i, NotifyFailure(seal_barrier))
    /\ UNCHANGED filter_vars
    /\ UNCHANGED <<svc_pc, latest_block_number, execution_args, ordered_block_q,
                   api_dropped, execute_block_barrier, merklize_barrier,
                   make_canonical_barrier, executed_block_hash_ch,
                   verified_block_hash_ch, events, storage, pulled>>

ExecutedBlockMetaOfParent(t) == [block_id |-> t.id, block_hash |-> t.parent_hash]

\* ExecutedBlockMeta { block_id, block_hash } handed to verify_executed_block_hash
ExecutedBlockMeta(t) == [block_id |-> t.id, block_hash |-> t.block_hash]

\* verify_executed_block_hash: self.executed_block_hash_tx.notify(block_id, block_hash)?
VerifyNotify(i) ==
    /\ ~aborted
    /\ tasks[i].pc = "verify_notify"
    /\ LET block_meta == ExecutedBlockMeta(tasks[i]) IN
       /\ executed_block_hash_ch' =
             Notify(executed_block_hash_ch, block_meta.block_id, block_meta.block_hash)
       /\ IF NotifyOk(executed_block_hash_ch, block_meta.block_id)
          THEN Goto(i, "verify_wait") /\ UNCHANGED aborted
          ELSE PanicTask(i, NotifyFailure(executed_block_hash_ch))
    /\ UNCHANGED filter_vars
    /\ UNCHANGED <<svc_pc, latest_block_number, execution_args, ordered_block_q,
                   api_dropped, execute_block_barrier, merklize_barrier, seal_barrier,
                   make_canonical_barrier, verified_block_hash_ch, events, storage,
                   pulled>>

HashAssertSkipped(sealed_hash, verified_hash) == TRUE

\* assert_eq!(block_meta.block_hash, block_hash)
HashAssert(sealed_hash, verified_hash) == sealed_hash = verified_hash

\* verify_executed_block_hash: self.verified_block_hash_rx.wait(block_id).await?,
\* the assert, and the unwrap of the result in process
VerifyWait(i) ==
    /\ ~aborted
    /\ tasks[i].pc = "verify_wait"
    /\ \E r \in WaitResults(verified_block_hash_ch, tasks[i].id) :
          IF ~r.ok THEN PanicTask(i, "closed")
          ELSE IF HashAssert(tasks[i].block_hash, r.val)
          THEN Goto(i, "canonical_wait") /\ UNCHANGED aborted
          ELSE PanicTask(i, "hash_mismatch")
    /\ UNCHANGED filter_vars
    /\ UNCHANGED <<svc_pc, latest_block_number, execution_args, ordered_block_q,
                   api_dropped, execute_block_barrier, merklize_barrier, seal_barrier,
                   make_canonical_barrier, executed_block_hash_ch,
                   verified_block_hash_ch, events, storage, pulled>>

\* a task that goes on to make_canonical without waiting for its parent
CanonicalWaitNoBarrier(i) ==
    /\ ~aborted
    /\ tasks[i].pc = "canonical_wait"
    /\ Goto(i, "make_canonical")
    /\ UNCHANGED filter_vars
    /\ UNCHANGED <<svc_pc, latest_block_number, execution_args, ordered_block_q,
                   api_dropped, execute_block_barrier, merklize_barrier, seal_barrier,
                   make_canonical_barrier, executed_block_hash_ch,
                   verified_block_hash_ch, events, storage, pulled, aborted>>

\* self.make_canonical_barrier.wait(block_number - 1).await.unwrap()
CanonicalWait(i) ==
    /\ ~aborted
    /\ tasks[i].pc = "canonical_wait"
    /\ \E r \in WaitResults(make_canonical_barrier, WaitKey(tasks[i].number)) :
          IF r.ok THEN Goto(i, "make_canonical") /\ UNCHANGED aborted ELSE PanicTask(i, "closed")
    /\ UNCHANGED filter_vars
    /\ UNCHANGED <<svc_pc, latest_block_number, execution_args, ordered_block_q,
                   api_dropped, execute_block_barrier, merklize_barrier, seal_barrier,
                   make_canonical_barrier, executed_block_hash_ch,
                   verified_block_hash_ch, events, storage, pulled>>

\* make_canonical: self.event_tx.send(PipeExecLayerEvent::MakeCanonical(..))
MakeCanonical(i) ==
    /\ ~aborted
    /\ tasks[i].pc = "make_canonical"
    /\ events' = Append(events, [task |-> i, number |-> tasks[i].number,
                                 id |-> tasks[i].id, hash |-> tasks[i].block_hash,
                                 acked |-> FALSE])
    /\ Goto(i, "canonical_ack")
    /\ UNCHANGED filter_vars
    /\ UNCHANGED <<svc_pc, latest_block_number, execution_args, ordered_block_q,
                   api_dropped, execute_block_barrier, merklize_barrier, seal_barrier,
                   make_canonical_barrier, executed_block_hash_ch,
                   verified_block_hash_ch, storage, pulled, aborted>>

\* a task that ends after update_canonical without publishing on the barrier
UpdateCanonicalNoNotify(i) ==
    /\ ~aborted
    /\ tasks[i].pc = "canonical_ack"
    /\ \E e \in DOMAIN events : events[e].task = i /\ events[e].acked
    /\ storage' = [storage EXCEPT
                      !.canonical = (tasks[i].number :> tasks[i].block_hash) @@ @]
    /\ Goto(i, "done")
    /\ UNCHANGED filter_vars
    /\ UNCHANGED <<svc_pc, latest_block_number, execution_args, ordered_block_q,
                   api_dropped, execute_block_barrier, merklize_barrier, seal_barrier,
                   make_canonical_barrier, executed_block_hash_ch,
                   verified_block_hash_ch, events, pulled, aborted>>

\* make_canonical: rx.await returns; then storage.update_canonical and
\* make_canonical_barrier.notify(block_number, finish_commit_time)
UpdateCanonical(i) ==
    /\ ~aborted
    /\ tasks[i].pc = "canonical_ack"
    /\ \E e \in DOMAIN events : events[e].task = i /\ events[e].acked
    /\ storage' = [storage EXCEPT
                      !.canonical = (tasks[i].number :> tasks[i].block_hash) @@ @]
    /\ make_canonical_barrier' =
          Notify(make_canonical_barrier, tasks[i].number, "instant")
    /\ IF NotifyOk(make_canonical_barrier, tasks[i].number)
       THEN Goto(i, "done") /\ UNCHANGED aborted
       ELSE PanicTask(i, NotifyFailure(make_canonical_barrier))
    /\ UNCHANGED filter_vars
    /\ UNCHANGED <<svc_pc, latest_block_number, execution_args, ordered_block_q,
                   api_dropped, execute_block_barrier, merklize_barrier, seal_barrier,
                   executed_block_hash_ch, verified_block_hash_ch, events, pulled>>

-----------------------------------------------------------------------------
(* filter_invalid_txs *)

\* The inputs a call is checked with.  gas_limit is a u64, the fee a u128 and
\* the base fee the base fee of a header (a u64), so the product below stays
\* under 2^193 and the U256 arithmetic of the code never wraps.
Addresses == {"A", "B"}
TxNonces == 0 .. 1
GasLimits == {1, 2}
Fees == {1}
BaseFees == {0, 1}
Balances == {2}

Transactions == [nonce : TxNonces, gas_limit : GasLimits, priority_fee_or_price : Fees]

AccountInfos == [nonce : TxNonces, balance : Balances]

\* state views: every address may or may not have an account
StateViews == UNION {[present -> AccountInfos] : present \in SUBSET Addresses}

TxLists == UNION {[1 .. n -> Transactions] : n \in 0 .. MaxTxs}

\* sender_idx.entry(sender).or_insert_with(Vec::new).push(i) for each i in
\* order: per sender, its indices in ascending order
RECURSIVE AscendingIdxs(_, _, _)
AscendingIdxs(list, sender, i) ==
    IF i > Len(list) THEN <<>>
    ELSE (IF list[i] = sender THEN <<i>> ELSE <<>>) \o AscendingIdxs(list, sender, i + 1)

SenderIdx(list) ==
    [sender \in {list[i] : i \in DOMAIN list} |-> AscendingIdxs(list, sender, 1)]

GasSpentWithoutBaseFee(tx, base_fee) == tx.gas_limit * tx.priority_fee_or_price

\* gas_limit * (priority_fee_or_price + base_fee_per_gas)
GasSpent(tx, base_fee) == tx.gas_limit * (tx.priority_fee_or_price + base_fee)

\* a check that counts a transaction it rejects for its balance against the nonce
IsTxValidNonceFirst(tx, account, base_fee) ==
    IF account.nonce # tx.nonce
    THEN [valid |-> FALSE, account |-> account]
    ELSE IF account.balance < GasSpent(tx, base_fee)
    THEN [valid |-> FALSE, account |-> [account EXCEPT !.nonce = @ + 1]]
    ELSE [valid |-> TRUE,
          account |-> [nonce |-> account.nonce + 1,
                       balance |-> account.balance - GasSpent(tx, base_fee)]]

\* the closure is_tx_valid: the verdict, and the account as it leaves it
IsTxValid(tx, account, base_fee) ==
    IF account.nonce # tx.nonce
    THEN [valid |-> FALSE, account |-> account]
    ELSE IF account.balance < GasSpent(tx, base_fee)
    THEN [valid |-> FALSE, account |-> account]
    ELSE [valid |-> TRUE,
          account |-> [nonce |-> account.nonce + 1,
                       balance |-> account.balance - GasSpent(tx, base_fee)]]

\* idxs.into_iter().filter(|&idx| !is_tx_valid(&txs[idx], sender, &mut account))
RECURSIVE InvalidOf(_, _, _, _)
InvalidOf(list, idxs, account, base_fee) ==
    IF idxs = <<>> THEN {}
    ELSE LET r == IsTxValid(list[Head(idxs)], account, base_fee) IN
         (IF r.valid THEN {} ELSE {Head(idxs)})
             \cup InvalidOf(list, Tail(idxs), r.account, base_fee)

\* the body of flat_map for one bucket: db.basic_ref(*sender) is Some or None
BucketInvalidIdxs(view, list, sender, idxs, base_fee) ==
    IF sender \in DOMAIN view
    THEN InvalidOf(list, idxs, view[sender], base_fee)
    ELSE {idxs[k] : k \in DOMAIN idxs}

RECURSIVE RetainFrom(_, _, _)
RetainFrom(list, invalid, i) ==
    IF i > Len(list) THEN <<>>
    ELSE (IF i \in invalid THEN <<>> ELSE <<list[i]>>) \o RetainFrom(list, invalid, i + 1)

\* a copy loop that skips the index after each invalid one as well
RetainSkippingNext(list, invalid) ==
    RetainFrom(list, invalid \cup {i + 1 : i \in invalid}, 1)

\* the copy loop: every element whose index is not invalid, in order
Retain(list, invalid) == RetainFrom(list, invalid, 1)

\* the inputs of a call, with the buckets built
FilterCalled(view, tx_list, sender_list, base_fee) ==
    /\ db = view
    /\ txs = tx_list
    /\ senders = sender_list
    /\ base_fee_per_gas = base_fee
    /\ sender_idx = SenderIdx(sender_list)
    /\ invalid_idxs = {}
    /\ filtered = <<>>
    /\ filter_pc = "buckets"
    /\ filter_calls = <<[txs |-> tx_list, senders |-> sender_list]>>
    /\ accounts = <<>>
    /\ checked = <<>>

FilterInit ==
    /\ PipeInit
    /\ \E view \in StateViews, tx_list \in TxLists, base_fee \in BaseFees :
          \E sender_list \in [DOMAIN tx_list -> Addresses] :
              FilterCalled(view, tx_list, sender_list, base_fee)

\* into_par_iter().flat_map(..): the closure runs for one bucket from its
\* start to its end with no step of another bucket in between; the buckets
\* are taken in any order
FilterBucket(sender) ==
    /\ filter_pc = "buckets"
    /\ sender \in DOMAIN sender_idx
    /\ sender \notin DOMAIN accounts
    /\ invalid_idxs' = invalid_idxs \cup
          BucketInvalidIdxs(db, txs, sender, sender_idx[sender], base_fee_per_gas)
    /\ sender_idx' = [s \in DOMAIN sender_idx \ {sender} |-> sender_idx[s]]
    /\ checked' = IF sender \in DOMAIN db THEN checked \o sender_idx[sender] ELSE checked
    /\ UNCHANGED <<db, txs, senders, base_fee_per_gas, filtered, filter_pc, filter_calls,
                   accounts>>
    /\ UNCHANGED pipe_vars

\* the closure starts for a bucket on some worker while other buckets are
\* being processed: db.basic_ref(*sender) returns Some(mut account)
FilterBucketStart(sender) ==
    /\ filter_pc = "buckets"
    /\ sender \in DOMAIN sender_idx
    /\ sender \notin DOMAIN accounts
    /\ sender \in DOMAIN db
    /\ accounts' = (sender :> db[sender]) @@ accounts
    /\ UNCHANGED <<db, txs, senders, base_fee_per_gas, sender_idx, invalid_idxs, filtered,
                   filter_pc, filter_calls, checked>>
    /\ UNCHANGED pipe_vars

\* a step that leaves the account it updated to every running bucket
FilterBucketStepSharedAccount(sender) ==
    /\ filter_pc = "buckets"
    /\ sender \in DOMAIN sender_idx
    /\ sender \in DOMAIN accounts
    /\ LET idx == Head(sender_idx[sender])
           r == IsTxValid(txs[idx], accounts[sender], base_fee_per_gas)
       IN /\ invalid_idxs' = invalid_idxs \cup (IF r.valid THEN {} ELSE {idx})
          /\ accounts' =
                IF Tail(sender_idx[sender]) = <<>>
                THEN [s \in DOMAIN accounts \ {sender} |-> r.account]
                ELSE [s \in DOMAIN accounts |-> r.account]
          /\ checked' = Append(checked, idx)
          /\ sender_idx' =
                IF Tail(sender_idx[sender]) = <<>>
                THEN [s \in DOMAIN sender_idx \ {sender} |-> sender_idx[s]]
                ELSE [sender_idx EXCEPT ![sender] = Tail(@)]
    /\ UNCHANGED <<db, txs, senders, base_fee_per_gas, filtered, filter_pc, filter_calls>>
    /\ UNCHANGED pipe_vars

\* one element of idxs.into_iter().filter(..) of a running bucket:
\* is_tx_valid(&txs[idx], sender, &mut account) on the bucket's own account
FilterBucketStep(sender) ==
    /\ filter_pc = "buckets"
    /\ sender \in DOMAIN sender_idx
    /\ sender \in DOMAIN accounts
    /\ LET idx == Head(sender_idx[sender])
           r == IsTxValid(txs[idx], accounts[sender], base_fee_per_gas)
       IN /\ invalid_idxs' = invalid_idxs \cup (IF r.valid THEN {} ELSE {idx})
          /\ accounts' =
                IF Tail(sender_idx[sender]) = <<>>
                THEN [s \in DOMAIN accounts \ {sender} |-> accounts[s]]
                ELSE [accounts EXCEPT ![sender] = r.account]
          /\ checked' = Append(checked, idx)
          /\ sender_idx' =
                IF Tail(sender_idx[sender]) = <<>>
                THEN [s \in DOMAIN sender_idx \ {sender} |-> sender_idx[s]]
                ELSE [sender_idx EXCEPT ![sender] = Tail(@)]
    /\ UNCHANGED <<db, txs, senders, base_fee_per_gas, filtered, filter_pc, filter_calls>>
    /\ UNCHANGED pipe_vars

\* collect::<HashSet<_>>() is complete: build and return the filtered lists
FilterReturn ==
    /\ filter_pc = "buckets"
    /\ DOMAIN sender_idx = {}
    /\ filtered' = IF invalid_idxs # {}
                   THEN <<Retain(txs, invalid_idxs), Retain(senders, invalid_idxs)>>
                   ELSE <<txs, senders>>
    /\ filter_pc' = "returned"
    /\ UNCHANGED <<db, txs, senders, base_fee_per_gas, sender_idx, invalid_idxs,
                   filter_calls, accounts, checked>>
    /\ UNCHANGED pipe_vars

\* the lists returned are passed to filter_invalid_txs again, with the same
\* state view and base fee
FilterAgain ==
    /\ filter_pc = "returned"
    /\ Len(filter_calls) = 1
    /\ txs' = filtered[1]
    /\ senders' = filtered[2]
    /\ sender_idx' = SenderIdx(filtered[2])
    /\ invalid_idxs' = {}
    /\ filter_pc' = "buckets"
    /\ filter_calls' = Append(filter_calls, [txs |-> filtered[1], senders |-> filtered[2]])
    /\ checked' = <<>>
    /\ UNCHANGED <<db, base_fee_per_gas, filtered, accounts>>
    /\ UNCHANGED pipe_vars

-----------------------------------------------------------------------------
(* Specification *)

Process(i) ==
    \/ InsertBlockId(i)
    \/ ExecuteWait(i)
    \/ Execute(i)
    \/ CalculateRoots(i)
    \/ MerklizeWait(i)
    \/ Merklize(i)
    \/ SealWait(i)
    \/ Seal(i)
    \/ VerifyNotify(i)
    \/ VerifyWait(i)
    \/ CanonicalWait(i)
    \/ MakeCanonical(i)
    \/ UpdateCanonical(i)

Run ==
    \/ RunInit
    \/ RunRecvBlock
    \/ RunRecvNone
    \/ RunCloseExecuted
    \/ RunCloseExecute
    \/ RunCloseMerklize
    \/ RunCloseCanonical

Next ==
    \/ SendExecutionArgs
    \/ DropExecutionArgs
    \/ \E block \in OrderedBlocks(Pushed + 1, LastPushed.number, LastPushed.id) :
          PushOrderedBlock(block)
    \/ \E block_id \in DispatchedIds : PullExecutedBlockHash(block_id)
    \/ \E block_id \in DispatchedIds : \E block_hash \in CommitChoices(block_id) :
          CommitExecutedBlockHash([block_id |-> block_id, block_hash |-> block_hash])
    \/ DropApi
    \/ \E e \in DOMAIN events : HostAck(e)
    \/ RunInit
    \/ RunRecvBlock
    \/ RunRecvNone
    \/ RunCloseExecuted
    \/ RunCloseExecute
    \/ RunCloseMerklize
    \/ RunCloseCanonical
    \/ \E i \in TaskIds : InsertBlockId(i)
    \/ \E i \in TaskIds : ExecuteWait(i)
    \/ \E i \in TaskIds : Execute(i)
    \/ \E i \in TaskIds : CalculateRoots(i)
    \/ \E i \in TaskIds : MerklizeWait(i)
    \/ \E i \in TaskIds : Merklize(i)
    \/ \E i \in TaskIds : SealWait(i)
    \/ \E i \in TaskIds : Seal(i)
    \/ \E i \in TaskIds : VerifyNotify(i)
    \/ \E i \in TaskIds : VerifyWait(i)
    \/ \E i \in TaskIds : CanonicalWait(i)
    \/ \E i \in TaskIds : MakeCanonical(i)
    \/ \E i \in TaskIds : UpdateCanonical(i)

Spec == Init /\ [][Next]_vars

\* tokio polls every ready task: the dispatch loop and each spawned task take
\* their next step when it stays possible
FairSpec ==
    /\ Spec
    /\ WF_vars(Run)
    /\ \A i \in 1 .. MaxBlocks : WF_vars(i \in TaskIds /\ Process(i))

\* The cooperative environment: the Coordinator pushes blocks with consecutive
\* numbers, fresh ids and the id of the block before as parent, commits for
\* an id the hash it pulled, and does not drop the facade; the executor
\* succeeds; the host acknowledges MakeCanonical events.
CoopBlock ==
    [number |-> LastPushed.number + 1, id |-> Pushed + 1, parent_id |-> LastPushed.id]

CoopRun == RunInit \/ RunRecvBlock

CoopProcess(i) ==
    \/ InsertBlockId(i)
    \/ ExecuteWait(i)
    \/ ExecuteWith(i, TRUE)
    \/ CalculateRoots(i)
    \/ MerklizeWait(i)
    \/ Merklize(i)
    \/ SealWait(i)
    \/ Seal(i)
    \/ VerifyNotify(i)
    \/ VerifyWait(i)
    \/ CanonicalWait(i)
    \/ MakeCanonical(i)
    \/ UpdateCanonical(i)

CommitPulled(block_id) ==
    /\ block_id \in DOMAIN pulled
    /\ CommitExecutedBlockHash([block_id |-> block_id, block_hash |-> pulled[block_id]])

CoopNext ==
    \/ SendExecutionArgs
    \/ PushOrderedBlock(CoopBlock)
    \/ \E block_id \in DispatchedIds : PullExecutedBlockHash(block_id)
    \/ \E block_id \in DispatchedIds : CommitPulled(block_id)
    \/ \E e \in DOMAIN events : HostAck(e)
    \/ RunInit
    \/ RunRecvBlock
    \/ \E i \in TaskIds : InsertBlockId(i)
    \/ \E i \in TaskIds : ExecuteWait(i)
    \/ \E i \in TaskIds : ExecuteWith(i, TRUE)
    \/ \E i \in TaskIds : CalculateRoots(i)
    \/ \E i \in TaskIds : MerklizeWait(i)
    \/ \E i \in TaskIds : Merklize(i)
    \/ \E i \in TaskIds : SealWait(i)
    \/ \E i \in TaskIds : Seal(i)
    \/ \E i \in TaskIds : VerifyNotify(i)
    \/ \E i \in TaskIds : VerifyWait(i)
    \/ \E i \in TaskIds : CanonicalWait(i)
    \/ \E i \in TaskIds : MakeCanonical(i)
    \/ \E i \in TaskIds : UpdateCanonical(i)

\* the pipeline in the cooperative environment: every ready task is polled,
\* the Coordinator pulls every published hash and commits what it pulled,
\* and the host answers every MakeCanonical event; when ExecutionArgs is
\* sent is left to the environment
CoopSpec ==
    /\ Init
    /\ [][CoopNext]_vars
    /\ WF_vars(CoopRun)
    /\ \A k \in 1 .. MaxBlocks :
          /\ WF_vars(k \in TaskIds /\ CoopProcess(k))
          /\ WF_vars(PullExecutedBlockHash(k))
          /\ WF_vars(CommitPulled(k))
          /\ WF_vars(k \in DOMAIN events /\ HostAck(k))

FilterNext ==
    \/ \E sender \in Addresses : FilterBucket(sender)
    \/ \E sender \in Addresses : FilterBucketStart(sender)
    \/ \E sender \in Addresses : FilterBucketStep(sender)
    \/ FilterReturn
    \/ FilterAgain

\* filter_invalid_txs called with every input of the bounded sets
FilterSpec == FilterInit /\ [][FilterNext]_vars

-----------------------------------------------------------------------------
(* Properties *)

\* the task of the block numbered n, where one was dispatched
TaskOf(n) == {i \in TaskIds : tasks[i].number = n}

\* C1: the MakeCanonical events sent to the host carry the block numbers
\* latest_block_number + 1, latest_block_number + 2, ... in that order: the
\* e-th event is for latest_block_number + e, none twice, none skipped.
C1_MakeCanonicalInOrder ==
    \A e \in DOMAIN events : events[e].number = LatestBlockNumber + e

\* two blocks were made canonical, the second after an interleaved pipeline
C1_Witness ==
    /\ Len(events) = 2
    /\ events[2].number = LatestBlockNumber + 2

\* C2: a hash returned by pull_executed_block_hash(B) is the hash a block
\* with id B computed when it was sealed (seal_slow over its header), and it
\* is the value that block published on seal_barrier under its number.
C2_PulledHashIsSealedHash ==
    \A b \in DOMAIN pulled :
        \E i \in TaskIds :
            /\ tasks[i].id = b
            /\ pulled[b] = SealSlow(tasks[i].number, tasks[i].id, tasks[i].parent_hash)
            /\ pulled[b] = tasks[i].block_hash
            /\ Has(seal_barrier, tasks[i].number)
            /\ seal_barrier.vals[tasks[i].number] = pulled[b]

\* the Coordinator pulled the hashes of two blocks with distinct ids
C2_Witness ==
    /\ Cardinality(DOMAIN pulled) = 2
    /\ \E i \in TaskIds : tasks[i].id \in DOMAIN pulled /\ tasks[i].pc = "verify_wait"

\* C3: a block for which MakeCanonical was sent or update_canonical was
\* called had, before that, a hash committed by the Coordinator for its id
\* that equals the hash the PEL sealed and submitted for that id.
C3_CanonicalOnlyIfVerified ==
    /\ \A e \in DOMAIN events :
          /\ Has(verified_block_hash_ch, events[e].id)
          /\ verified_block_hash_ch.vals[events[e].id] = events[e].hash
          /\ Has(executed_block_hash_ch, events[e].id)
          /\ executed_block_hash_ch.vals[events[e].id] = events[e].hash
          /\ tasks[events[e].task].block_hash = events[e].hash
          /\ tasks[events[e].task].id = events[e].id
    /\ \A n \in DOMAIN storage.canonical :
          \E e \in DOMAIN events :
              events[e].number = n /\ events[e].hash = storage.canonical[n]

\* update_canonical was called for a block while the Coordinator had also
\* tried to commit a hash for another block
C3_Witness ==
    /\ DOMAIN storage.canonical # {}
    /\ \E b \in DOMAIN verified_block_hash_ch.vals :
          verified_block_hash_ch.vals[b] = BadHash

\* a task observed a verified hash different from the hash it sealed
MismatchObserved == \E i \in TaskIds : tasks[i].panic = "hash_mismatch"

\* C4: once a task has observed a committed hash different from its sealed
\* hash, the service halts: no further ordered block is dispatched and no
\* task performs a further stage.
C4_HaltsAfterMismatch == [][MismatchObserved => tasks' = tasks]_vars

\* the pcs at which a task is inside each barrier stage
StagePcs ==
    [execute |-> {"execute"},
     merklize |-> {"merklize"},
     seal |-> {"seal"},
     make_canonical |-> {"make_canonical", "canonical_ack"}]

\* the pcs at which a task has not yet entered each barrier stage
BeforePcs ==
    [execute |-> {"start", "execute_wait"},
     merklize |-> {"start", "execute_wait", "execute", "roots", "merklize_wait"},
     seal |-> {"start", "execute_wait", "execute", "roots", "merklize_wait",
               "merklize", "seal_wait"},
     make_canonical |-> {"start", "execute_wait", "execute", "roots", "merklize_wait",
                         "merklize", "seal_wait", "seal", "verify_notify",
                         "verify_wait", "canonical_wait"}]

Barrier(stage) ==
    CASE stage = "execute" -> execute_block_barrier
      [] stage = "merklize" -> merklize_barrier
      [] stage = "seal" -> seal_barrier
      [] stage = "make_canonical" -> make_canonical_barrier

InStage(i, stage) == tasks[i].pc \in StagePcs[stage]

\* C5: for each barrier stage S, a block N+1 is inside S only when block N
\* has left S and its hand-off value for N is published on the barrier of S;
\* no two blocks are inside the same barrier stage at once.
C5_BarriersSerialiseStages ==
    \A stage \in DOMAIN StagePcs :
        /\ \A j \in TaskIds :
              (InStage(j, stage) /\ tasks[j].number > LatestBlockNumber + 1) =>
                  /\ Has(Barrier(stage), tasks[j].number - 1)
                  /\ \E i \in TaskOf(tasks[j].number - 1) :
                        tasks[i].pc \notin (StagePcs[stage] \cup BeforePcs[stage])
        /\ \A i, j \in TaskIds : (InStage(i, stage) /\ InStage(j, stage)) => i = j

\* block N+1 is sealing after block N went through its own seal stage
C5_Witness ==
    \E i, j \in TaskIds :
        /\ tasks[j].number = tasks[i].number + 1
        /\ InStage(j, "seal")
        /\ tasks[i].pc = "verify_wait"

\* C7: the dispatched blocks have the numbers latest_block_number + 1,
\* latest_block_number + 2, ... in dispatch order (consecutive, none twice);
\* once a received block fails the number assertion the loop has ended (or
\* the process has) and no later block is dispatched.
C7_DispatchConsecutive ==
    /\ [](/\ \A i \in TaskIds : tasks[i].number = LatestBlockNumber + i
          /\ latest_block_number = LatestBlockNumber + Len(tasks))
    /\ [][(svc_pc = "panicked" \/ aborted) => Len(tasks') = Len(tasks)]_vars

\* a block with a wrong number was received after a good one was dispatched
C7_Witness ==
    /\ svc_pc = "panicked"
    /\ execution_args.state = "sent"
    /\ Len(tasks) = 1

\* C8: the first ingress block never suspends in a barrier wait: at each of
\* its four waits the seeded value for latest_block_number is there to
\* resume it, and what it receives is latest_block_header as parent header
\* and latest_block_hash as parent hash.
C8_FirstBlockFindsSeeds ==
    \A i \in TaskIds :
        tasks[i].number = LatestBlockNumber + 1 =>
            /\ tasks[i].pc = "execute_wait" =>
                  Some(LatestBlockHeader.number) \in
                      WaitResults(execute_block_barrier, WaitKey(tasks[i].number))
            /\ tasks[i].pc = "merklize_wait" =>
                  Some("unit") \in WaitResults(merklize_barrier, WaitKey(tasks[i].number))
            /\ tasks[i].pc = "seal_wait" =>
                  Some(LatestBlockHash) \in
                      WaitResults(seal_barrier, WaitKey(tasks[i].number))
            /\ tasks[i].pc = "canonical_wait" =>
                  Some("instant") \in
                      WaitResults(make_canonical_barrier, WaitKey(tasks[i].number))
            /\ tasks[i].pc \notin {"start", "execute_wait", "panicked"} =>
                  tasks[i].parent_header = LatestBlockHeader.number
            /\ tasks[i].pc \notin BeforePcs.seal \cup {"panicked"} =>
                  tasks[i].parent_hash = LatestBlockHash

\* the first block went through all four waits with no other block pushed
C8_Witness ==
    /\ Len(tasks) = 1
    /\ ordered_block_q = <<>>
    /\ tasks[1].pc = "done"
    /\ tasks[1].parent_hash = LatestBlockHash

\* C9: block N+1 is inside execute only after block N has published on the
\* execute barrier, whatever later stage block N is in (the witness is the
\* overlap: N+1 inside execute while N is inside merklize).
C9_ExecuteWaitsOnlyForExecute ==
    \A j \in TaskIds :
        (tasks[j].pc = "execute" /\ tasks[j].number > LatestBlockNumber + 1) =>
            /\ Has(execute_block_barrier, tasks[j].number - 1)
            /\ tasks[j].parent_header = tasks[j].number - 1

\* block N+1 is inside stage 1 while block N is inside stage 3
C9_Witness ==
    \E i, j \in TaskIds :
        /\ tasks[j].number = tasks[i].number + 1
        /\ tasks[j].pc = "execute"
        /\ tasks[i].pc = "merklize"

\* the pcs at which a task is suspended in a barrier wait or in the
\* verification wait
WaitPcs == {"execute_wait", "merklize_wait", "seal_wait", "verify_wait", "canonical_wait"}

At(i, pc) == i \in TaskIds /\ tasks[i].pc = pc

ServiceEnded == svc_pc \in {"returned", "panicked"}

\* C6: once the ingress queue is closed (and the bootstrap one-shot has
\* resolved, so that the dispatch loop runs), the dispatch loop eventually
\* ends, and every task that is in a barrier wait or in the verification
\* wait eventually leaves that wait.
C6_GracefulShutdown ==
    /\ (api_dropped /\ execution_args.state # "pending") ~> (aborted \/ ServiceEnded)
    /\ \A i \in 1 .. MaxBlocks : \A w \in WaitPcs :
          (api_dropped /\ At(i, w)) ~> (aborted \/ ~At(i, w))

\* C10: dropping the facade closes the verified_block_hash channel, and
\* every task that is in the stage-5 wait then, or reaches it later,
\* eventually leaves that wait.
C10_DropResolvesVerifyWait ==
    /\ [](api_dropped => verified_block_hash_ch.closed)
    /\ \A i \in 1 .. MaxBlocks :
          (api_dropped /\ At(i, "verify_wait")) ~> (aborted \/ ~At(i, "verify_wait"))

\* a task that published its hash and got no verified hash was resumed by
\* the closed signal after the facade was dropped
C10_Witness ==
    /\ api_dropped
    /\ \E i \in TaskIds :
          /\ tasks[i].pc = "panicked"
          /\ tasks[i].panic = "closed"
          /\ Has(executed_block_hash_ch, tasks[i].id)
          /\ executed_block_hash_ch.vals[tasks[i].id] = tasks[i].block_hash
          /\ ~Has(verified_block_hash_ch, tasks[i].id)

-----------------------------------------------------------------------------
(* Properties of filter_invalid_txs *)

\* the j-th smallest index of a list of length n that is not in deleted
KeptIdx(n, deleted, j) ==
    CHOOSE i \in (1 .. n) \ deleted : Cardinality((1 .. i) \ deleted) = j

\* list with the indices in deleted removed
Without(list, deleted) ==
    [j \in 1 .. (Len(list) - Cardinality(deleted)) |->
        list[KeptIdx(Len(list), deleted, j)]]

\* C11: the lists filter_invalid_txs returns are its inputs with one and the
\* same set of indices (the invalid ones) deleted from both: the surviving
\* transactions keep their relative order, out_senders[j] is the sender of
\* out_txs[j], both outputs have the same length; when no index is invalid
\* the outputs are the inputs.
C11_FilterPreservesOrderAndPairing ==
    filter_pc = "returned" =>
        /\ invalid_idxs \subseteq DOMAIN txs
        /\ filtered[1] = Without(txs, invalid_idxs)
        /\ filtered[2] = Without(senders, invalid_idxs)
        /\ Len(filtered[1]) = Len(filtered[2])
        /\ invalid_idxs = {} => filtered = <<txs, senders>>

\* a call returned with the middle one of three transactions deleted, the
\* first and the last being from different senders
C11_Witness ==
    /\ filter_pc = "returned"
    /\ Len(txs) = 3
    /\ invalid_idxs = {2}
    /\ senders[1] # senders[3]
    /\ filtered[2] = <<senders[1], senders[3]>>

\* C12: filter_invalid_txs applied to the lists it returned, with the same
\* state view and base fee, returns them unchanged.
C12_FilterIdempotent ==
    (filter_pc = "returned" /\ Len(filter_calls) = 2) =>
        /\ filter_calls[2] = [txs |-> txs, senders |-> senders]
        /\ filtered = <<filter_calls[2].txs, filter_calls[2].senders>>

\* the second call returned, the first having dropped one of three
\* transactions and kept two of one sender
C12_Witness ==
    /\ filter_pc = "returned"
    /\ Len(filter_calls) = 2
    /\ Len(filter_calls[1].txs) = 3
    /\ Len(filtered[1]) = 2
    /\ filtered[2][1] = filtered[2][2]

\* the account of sender after the first n positions of the input lists,
\* in the per-sender sequential reference
RECURSIVE RefAccount(_, _)
RefAccount(sender, n) ==
    IF n = 0 THEN db[sender]
    ELSE LET before == RefAccount(sender, n - 1)
             cost == txs[n].gas_limit * (txs[n].priority_fee_or_price + base_fee_per_gas)
         IN IF senders[n] = sender /\ txs[n].nonce = before.nonce /\ before.balance >= cost
            THEN [nonce |-> before.nonce + 1, balance |-> before.balance - cost]
            ELSE before

\* the reference marks position n valid
RefValid(n) ==
    /\ senders[n] \in DOMAIN db
    /\ LET before == RefAccount(senders[n], n - 1) IN
       /\ txs[n].nonce = before.nonce
       /\ before.balance >=
             txs[n].gas_limit * (txs[n].priority_fee_or_price + base_fee_per_gas)

\* C13: filter_invalid_txs keeps exactly the transactions the per-sender
\* sequential reference marks valid (running nonce and balance from the
\* sender's account; valid iff the nonce matches and the balance covers
\* gas_limit * (priority_fee_or_price + base_fee_per_gas); a valid one spends
\* that and adds 1 to the nonce), and drops every transaction of a sender
\* with no account.
C13_FilterKeepsReferenceValid ==
    filter_pc = "returned" =>
        LET ref_invalid == {n \in DOMAIN txs : ~RefValid(n)} IN
        /\ invalid_idxs = ref_invalid
        /\ filtered = <<Without(txs, ref_invalid), Without(senders, ref_invalid)>>
        /\ \A n \in DOMAIN txs : senders[n] \notin DOMAIN db => n \in invalid_idxs

\* a call returned where a sender's second transaction was dropped for its
\* balance after the first one was charged, next to a sender with no account
C13_Witness ==
    /\ filter_pc = "returned"
    /\ Len(filter_calls) = 1
    /\ \E a, b \in Addresses :
          /\ a \in DOMAIN db
          /\ b \notin DOMAIN db
          /\ senders = <<a, b, a>>
          /\ txs[1].nonce = db[a].nonce
          /\ txs[3].nonce = db[a].nonce + 1
          /\ invalid_idxs = {2, 3}

-----------------------------------------------------------------------------
(* Properties of the pipeline, continued *)

\* the pcs at which a task is inside each of the six stages
SixStagePcs ==
    [execute |-> {"execute"},
     roots |-> {"roots"},
     merklize |-> {"merklize"},
     seal |-> {"seal"},
     verify |-> {"verify_notify", "verify_wait"},
     make_canonical |-> {"make_canonical", "canonical_ack"}]

Inside(pcs) == {i \in TaskIds : tasks[i].pc \in pcs}

\* C14, as stated: in every reachable state each of the six stages (execute,
\* compute auxiliary roots, merklize, seal, verify with Coordinator, make
\* canonical) holds at most one block.
C14_OneBlockPerStage ==
    \A stage \in DOMAIN SixStagePcs : Cardinality(Inside(SixStagePcs[stage])) <= 1

\* C14, amended: in every reachable state each of the four stages entered
\* through a barrier wait (execute, merklize, seal, make canonical) holds at
\* most one block; the stages without a barrier (compute auxiliary roots,
\* verify with Coordinator) may hold several.
C14_OneBlockPerBarrierStage ==
    \A stage \in {"execute", "merklize", "seal", "make_canonical"} :
        Cardinality(Inside(SixStagePcs[stage])) <= 1

\* two blocks are waiting for the Coordinator's verification at once
C14_Witness ==
    \E i, j \in TaskIds :
        /\ i # j
        /\ tasks[i].pc = "verify_wait"
        /\ tasks[j].pc = "verify_wait"

\* C15: a task that observes a closed channel (a barrier wait, a barrier
\* notify or the verification handshake returning the closed signal) ends
\* normally: no task ends with a panic caused by a closed channel.
C15_ClosedChannelEndsTaskNormally ==
    \A i \in TaskIds : tasks[i].panic # "closed"

\* the steps of Core::process in program order
ProcessOrder ==
    <<"start", "execute_wait", "execute", "roots", "merklize_wait", "merklize",
      "seal_wait", "seal", "verify_notify", "verify_wait", "canonical_wait",
      "make_canonical", "canonical_ack", "done">>

Position(pc) == CHOOSE k \in DOMAIN ProcessOrder : ProcessOrder[k] = pc

\* what the stages of the block numbered n have left behind, each implying
\* the one before it
StagesInOrder(n) ==
    /\ Has(execute_block_barrier, n) => (n \in DOMAIN storage.block_ids /\ n \in storage.bundles)
    /\ (\E k \in DOMAIN storage.roots : storage.roots[k] = n) => Has(execute_block_barrier, n)
    /\ Has(merklize_barrier, n) => \E k \in DOMAIN storage.roots : storage.roots[k] = n
    /\ Has(seal_barrier, n) => Has(merklize_barrier, n)
    /\ \A e \in DOMAIN events : events[e].number = n =>
          /\ Has(seal_barrier, n)
          /\ seal_barrier.vals[n] = events[e].hash
          /\ Has(executed_block_hash_ch, events[e].id)
          /\ Has(verified_block_hash_ch, events[e].id)
    /\ n \in DOMAIN storage.canonical =>
          \E e \in DOMAIN events : events[e].number = n /\ events[e].acked
    /\ Has(make_canonical_barrier, n) => n \in DOMAIN storage.canonical

\* C16: each block goes through its stages in the one order register id,
\* execute, compute roots, merklize, seal, verify, make canonical (send the
\* event, await the reply, update_canonical, publish), only forward: every
\* step of a task moves it to the next position of Core::process or ends it;
\* what a stage leaves behind is there only if the earlier stages' is; no
\* stage is performed twice.
C16_StagesInFixedOrder ==
    /\ [][\A i \in TaskIds :
            tasks'[i].pc # tasks[i].pc =>
                /\ tasks[i].pc \notin {"done", "panicked"}
                /\ \/ tasks'[i].pc = "panicked"
                   \/ Position(tasks'[i].pc) = Position(tasks[i].pc) + 1]_vars
    /\ [](/\ \A i \in TaskIds : StagesInOrder(tasks[i].number)
          /\ \A k, l \in DOMAIN storage.roots : storage.roots[k] = storage.roots[l] => k = l
          /\ \A e, f \in DOMAIN events : events[e].number = events[f].number => e = f)

\* the second block went through every stage and published on the
\* make_canonical barrier
C16_Witness ==
    \E i \in TaskIds :
        /\ tasks[i].number = LatestBlockNumber + 2
        /\ tasks[i].pc = "done"
        /\ Has(make_canonical_barrier, tasks[i].number)

\* ExecutionArgs was received and every pair it carries was registered
Bootstrapped ==
    /\ execution_args.state = "sent"
    /\ \A n \in DOMAIN execution_args.map :
          /\ n \in DOMAIN storage.block_ids
          /\ storage.block_ids[n] = execution_args.map[n]

IsPrefix(q, r) == Len(q) <= Len(r) /\ SubSeq(r, 1, Len(q)) = q

\* C17: until ExecutionArgs has been received and insert_block_id called for
\* every pair it carries, the dispatch loop takes no block from the ingress
\* queue and no task exists; blocks pushed before that stay queued; blocks
\* are pushed at the tail of the queue and dispatched from its head, so in
\* push order.
C17_NoBlockBeforeBootstrap ==
    /\ []((tasks # <<>> \/ svc_pc \notin {"init", "panicked"}) => Bootstrapped)
    /\ [](svc_pc = "init" => tasks = <<>>)
    /\ [][svc_pc = "init" => IsPrefix(ordered_block_q, ordered_block_q')]_vars
    /\ [][ordered_block_q' # ordered_block_q =>
            \/ ordered_block_q # <<>> /\ ordered_block_q' = Tail(ordered_block_q)
            \/ /\ Len(ordered_block_q') = Len(ordered_block_q) + 1
               /\ IsPrefix(ordered_block_q, ordered_block_q')]_vars
    /\ [][Len(tasks') > Len(tasks) =>
            /\ ordered_block_q # <<>>
            /\ tasks' = Append(tasks, NewTask(Head(ordered_block_q)))
            /\ ordered_block_q' = Tail(ordered_block_q)]_vars

\* the bootstrap registered the pairs of ExecutionArgs, and then two queued
\* blocks were dispatched before any of them registered its own id
C17_Witness ==
    /\ Bootstrapped
    /\ Len(tasks) = 2
    /\ tasks[1].pc = "start"
    /\ tasks[2].pc = "start"
    /\ storage.block_ids = execution_args.map

\* state_root_with_updates has returned for the block numbered n
StateRootReturned(n) == \E k \in DOMAIN storage.roots : storage.roots[k] = n

\* C18: state_root_with_updates(N) is called only after insert_bundle_state(N)
\* has completed and state_root_with_updates(N-1) has returned (N-1 being the
\* seeded latest block for the first block); the calls are made in ascending
\* block-number order and no two are in progress at once.
C18_StateRootSerialised ==
    /\ \A k \in DOMAIN storage.roots :
          /\ storage.roots[k] = LatestBlockNumber + k
          /\ storage.roots[k] \in storage.bundles
    /\ \A i \in TaskIds :
          tasks[i].pc = "merklize" =>
              /\ tasks[i].number \in storage.bundles
              /\ \/ tasks[i].number - 1 = LatestBlockNumber
                 \/ StateRootReturned(tasks[i].number - 1)
    /\ \A i, j \in TaskIds :
          (tasks[i].pc = "merklize" /\ tasks[j].pc = "merklize") => i = j

\* the second block is about to compute its state root after the first
\* block's has returned, having executed before that
C18_Witness ==
    /\ storage.roots = <<LatestBlockNumber + 1>>
    /\ \E i \in TaskIds :
          /\ tasks[i].number = LatestBlockNumber + 2
          /\ tasks[i].pc = "merklize"

\* the task of tasks[i] has sealed its block
Sealed(i) == tasks[i].block_hash # NoHash

\* C19: the sealed blocks form a hash chain: the parent_hash in the sealed
\* header of block N is the hash the PEL sealed for block N-1, and for the
\* first block it is latest_block_hash; the block's own hash is computed over
\* a header that already holds that parent_hash, and is what the block
\* publishes on seal_barrier.
C19_SealedBlocksFormHashChain ==
    \A i \in TaskIds :
        Sealed(i) =>
            /\ IF tasks[i].number = LatestBlockNumber + 1
               THEN tasks[i].parent_hash = LatestBlockHash
               ELSE \E j \in TaskOf(tasks[i].number - 1) :
                        Sealed(j) /\ tasks[i].parent_hash = tasks[j].block_hash
            /\ tasks[i].block_hash =
                  SealSlow(tasks[i].number, tasks[i].id, tasks[i].parent_hash)
            /\ Has(seal_barrier, tasks[i].number)
            /\ seal_barrier.vals[tasks[i].number] = tasks[i].block_hash

\* the second block is sealed on top of the first block's hash, which is
\* sealed on top of latest_block_hash
C19_Witness ==
    \E i, j \in TaskIds :
        /\ tasks[i].number = LatestBlockNumber + 1
        /\ tasks[j].number = LatestBlockNumber + 2
        /\ Sealed(i)
        /\ Sealed(j)
        /\ tasks[j].parent_hash = tasks[i].block_hash
        /\ tasks[i].parent_hash = LatestBlockHash

\* the k-th block pushed is canonical: its MakeCanonical event was sent,
\* update_canonical was called for it and its entry is on the make_canonical
\* barrier
Canonical(n) ==
    /\ \E e \in DOMAIN events : events[e].number = n
    /\ n \in DOMAIN storage.canonical
    /\ Has(make_canonical_barrier, n)

\* C20, as stated: in the cooperative environment (consecutive numbers,
\* distinct ids, consistent parent ids, the executor succeeds, the
\* Coordinator commits the hash it pulled, the host acknowledges, the facade
\* is not dropped, tasks are scheduled fairly) every pushed block eventually
\* becomes canonical.
C20_PushedBecomesCanonical ==
    \A k \in 1 .. MaxBlocks : (Pushed >= k) ~> Canonical(LatestBlockNumber + k)

\* C20, amended: in the cooperative environment every pushed block
\* eventually becomes canonical once ExecutionArgs has been delivered on the
\* one-shot channel.
C20_PushedBecomesCanonicalOnceBootstrapped ==
    \A k \in 1 .. MaxBlocks :
        (Pushed >= k /\ execution_args.state = "sent") ~> Canonical(LatestBlockNumber + k)

\* every block pushed has become canonical, the last one after its parent
C20_Witness ==
    /\ Len(tasks) = MaxBlocks
    /\ \A k \in 1 .. MaxBlocks : Canonical(LatestBlockNumber + k)
    /\ \A i \in TaskIds : tasks[i].pc = "done"
    /\ ~api_dropped

-----------------------------------------------------------------------------
(* seal_barrier under shutdown *)

\* the task of tasks[i] was resumed from seal_barrier.wait with the hash the
\* block before it published on seal_barrier, which is the hash that block
\* sealed
ResumedWithParentHash(i) ==
    /\ At(i, "seal")
    /\ Has(seal_barrier, WaitKey(tasks[i].number))
    /\ tasks[i].parent_hash = seal_barrier.vals[WaitKey(tasks[i].number)]
    /\ \A j \in TaskOf(WaitKey(tasks[i].number)) :
          tasks[i].parent_hash = tasks[j].block_hash

\* C21: seal_barrier is never closed, a task that is in
\* seal_barrier.wait(N-1) finds block N-1 published on the merklize barrier,
\* and, whenever the dispatch loop closes the other barriers, every task that
\* reaches seal_barrier.wait(N-1) is eventually resumed with the hash of
\* block N-1 (unless a panic has ended the whole process).
C21_SealWaitAlwaysResumes ==
    /\ [](~seal_barrier.closed)
    /\ [](\A i \in TaskIds :
            tasks[i].pc = "seal_wait" => Has(merklize_barrier, WaitKey(tasks[i].number)))
    /\ \A i \in 1 .. MaxBlocks :
          At(i, "seal_wait") ~> (aborted \/ ResumedWithParentHash(i))

\* the dispatch loop has closed the execute, merklize and make_canonical
\* barriers and returned, and the second block was resumed from its wait on
\* seal_barrier with the hash of the first
C21_Witness ==
    /\ svc_pc = "returned"
    /\ execute_block_barrier.closed
    /\ merklize_barrier.closed
    /\ make_canonical_barrier.closed
    /\ \E i \in TaskIds :
          /\ tasks[i].number = LatestBlockNumber + 2
          /\ ResumedWithParentHash(i)

-----------------------------------------------------------------------------
(* The state view a block executes against *)

\* the pcs of a task that has not yet called insert_bundle_state
BeforeBundleState == {"start", "execute_wait", "execute"}

\* insert_block_id(n, id) and insert_bundle_state(n, ..) were called by the
\* task of block n, or n is the latest block, registered by init_storage
PostStateComplete(n) ==
    \/ /\ n = LatestBlockNumber
       /\ n \in DOMAIN storage.block_ids
    \/ \E j \in TaskOf(n) :
          /\ tasks[j].pc \notin BeforeBundleState
          /\ n \in DOMAIN storage.block_ids
          /\ storage.block_ids[n] = tasks[j].id
          /\ n \in storage.bundles

\* C22: a task that is about to call storage.get_state_view(N-1) in its
\* execute stage finds insert_block_id(N-1, id) and insert_bundle_state(N-1)
\* already called by the task of block N-1 (or N-1 is the seeded latest
\* block); and the insert_block_id(N, id) of a task waits for nothing: it
\* can be called whatever stage the tasks of the other blocks are in.
C22_ExecutesOnCompleteParentState ==
    /\ \A i \in TaskIds :
          tasks[i].pc = "execute" => PostStateComplete(tasks[i].number - 1)
    /\ \A i \in TaskIds :
          (tasks[i].pc = "start" /\ ~aborted) => ENABLED InsertBlockId(i)

\* a block is about to call get_state_view for the block before it, which
\* is not the seeded one: that block's task has registered its id, stored
\* its bundle state and is computing its roots
C22_Witness ==
    \E i, j \in TaskIds :
        /\ tasks[j].number = tasks[i].number + 1
        /\ tasks[j].pc = "execute"
        /\ tasks[i].pc = "roots"
        /\ PostStateComplete(tasks[i].number)
        /\ tasks[i].number # LatestBlockNumber

-----------------------------------------------------------------------------
(* The pre-filter under parallel processing of the buckets *)

\* the indices of the bucket of sender, in the call in progress
IdxsOf(sender) == {n \in DOMAIN senders : senders[n] = sender}

\* the indices of the bucket of sender that were not checked yet
Unchecked(sender) ==
    IF sender \in DOMAIN sender_idx
    THEN {sender_idx[sender][k] : k \in DOMAIN sender_idx[sender]}
    ELSE {}

\* the invalid indices of the bucket of sender when its closure runs alone
\* on the inputs of the call
AloneInvalid(sender) ==
    BucketInvalidIdxs(db, txs, sender, SenderIdx(senders)[sender], base_fee_per_gas)

\* what the call returns when the buckets are processed one after the other
SequentialInvalid == UNION {AloneInvalid(sender) : sender \in DOMAIN SenderIdx(senders)}

SequentialResult ==
    IF SequentialInvalid # {}
    THEN <<Retain(txs, SequentialInvalid), Retain(senders, SequentialInvalid)>>
    ELSE <<txs, senders>>

\* C23: for given db, txs, senders and base fee, whatever order the buckets
\* are processed in and however their steps interleave, every index checked
\* so far has the verdict it has when its bucket runs alone, and the lists
\* filter_invalid_txs returns are those of processing the buckets one after
\* the other.
C23_FilterResultIndependentOfSchedule ==
    /\ filter_pc = "buckets" =>
          \A sender \in DOMAIN SenderIdx(senders) :
              invalid_idxs \cap IdxsOf(sender) = AloneInvalid(sender) \ Unchecked(sender)
    /\ filter_pc = "returned" => filtered = SequentialResult

\* a call returned after the bucket of another sender was processed between
\* the two transactions of one sender, the second of which was dropped
C23_Witness ==
    /\ filter_pc = "returned"
    /\ Len(filter_calls) = 1
    /\ Len(senders) = 3
    /\ senders[1] # senders[2]
    /\ senders[3] = senders[1]
    /\ checked = <<1, 2, 3>>
    /\ invalid_idxs = {3}
    /\ filtered = <<SubSeq(txs, 1, 2), SubSeq(senders, 1, 2)>>

====
